---------------------------- MODULE Spec2Model ----------------------------
(***************************************************************************)
(* A model of package counter (src/counter/counter.go): a sparse map from  *)
(* string keys to float64 with a default value (Base), its accessors, the  *)
(* goroutine that merges two key lists over an unbuffered channel, the     *)
(* pure and in-place binary operations, Apply, ArgMax and Sum.             *)
(***************************************************************************)
EXTENDS Integers, Sequences, FiniteSets, TLC

(***************************************************************************)
(* Bounds of the model.                                                    *)
(***************************************************************************)
\* Finite float64 values are modelled for the integers -MaxVal..MaxVal.
MaxVal == 2
\* Number of top-level calls made on the counters in one behaviour.
MaxSteps == 2
\* Number of times one range over a map produces an entry that the loop
\* body keeps removing and storing anew.
MaxVisits == 2

\* The keys used by callers.
KeySet == {"x", "y"}

(***************************************************************************)
(* float64.  A value is a pair: <<"fin", n>> is the integer n, <<"nan",0>> *)
(* a NaN, <<"inf", 1>> and <<"inf", -1>> the infinities.  <<"oor", 0>>     *)
(* stands for every float64 outside this subset (a non-integer quotient, a *)
(* magnitude above MaxVal, or a negative zero); the actions never compute  *)
(* on inputs that produce it.                                              *)
(***************************************************************************)
Fin(n) == <<"fin", n>>
NaN == <<"nan", 0>>
PInf == <<"inf", 1>>
NInf == <<"inf", -1>>
OOR == <<"oor", 0>>

IsFin(x) == x[1] = "fin"
IsInf(x) == x[1] = "inf"
IsNaN(x) == x[1] = "nan"

Floats == {Fin(n) : n \in -MaxVal..MaxVal} \cup {NaN, PInf, NInf}

Sign(n) == IF n > 0 THEN 1 ELSE IF n < 0 THEN -1 ELSE 0

Abs(n) == IF n < 0 THEN -n ELSE n

\* The float64 of an exact integer result, when the model holds it.
Clip(n) == IF n \in -MaxVal..MaxVal THEN Fin(n) ELSE OOR

Inf(s) == IF s > 0 THEN PInf ELSE NInf

\* Go's == on float64: a NaN equals nothing, itself included.
FEq(x, y) == ~IsNaN(x) /\ ~IsNaN(y) /\ x = y

\* Go's > on float64: false when either side is a NaN.
FGt(x, y) ==
    /\ ~IsNaN(x) /\ ~IsNaN(y)
    /\ CASE IsFin(x) /\ IsFin(y) -> x[2] > y[2]
         [] IsInf(x) /\ IsInf(y) -> x[2] > y[2]
         [] IsInf(x) -> x[2] > 0
         [] OTHER -> y[2] < 0

\* a + b (counter.go:96, 126)
FAdd(x, y) ==
    CASE x = OOR \/ y = OOR -> OOR
      [] IsNaN(x) \/ IsNaN(y) -> NaN
      [] IsInf(x) /\ IsInf(y) -> IF x = y THEN x ELSE NaN
      [] IsInf(x) -> x
      [] IsInf(y) -> y
      [] OTHER -> Clip(x[2] + y[2])

\* a - b (counter.go:101, 131)
FSub(x, y) ==
    CASE x = OOR \/ y = OOR -> OOR
      [] IsNaN(x) \/ IsNaN(y) -> NaN
      [] IsInf(x) /\ IsInf(y) -> IF x = y THEN NaN ELSE x
      [] IsInf(x) -> x
      [] IsInf(y) -> Inf(-y[2])
      [] OTHER -> Clip(x[2] - y[2])

\* a * b (counter.go:106, 136); a zero product of opposite signs is -0.
FMul(x, y) ==
    CASE x = OOR \/ y = OOR -> OOR
      [] IsNaN(x) \/ IsNaN(y) -> NaN
      [] IsInf(x) /\ IsInf(y) -> Inf(x[2] * y[2])
      [] IsInf(x) -> IF y[2] = 0 THEN NaN ELSE Inf(x[2] * y[2])
      [] IsInf(y) -> IF x[2] = 0 THEN NaN ELSE Inf(x[2] * y[2])
      [] OTHER -> IF x[2] * y[2] = 0 /\ (x[2] < 0 \/ y[2] < 0)
                  THEN OOR
                  ELSE Clip(x[2] * y[2])

\* a / b (counter.go:111, 141): IEEE 754 division, no error on a zero divisor.
FDiv(x, y) ==
    CASE x = OOR \/ y = OOR -> OOR
      [] IsNaN(x) \/ IsNaN(y) -> NaN
      [] IsInf(x) /\ IsInf(y) -> NaN
      [] IsInf(x) -> IF y[2] < 0 THEN Inf(-x[2]) ELSE x
      [] IsInf(y) -> IF (x[2] >= 0 /\ y[2] > 0) \/ (x[2] < 0 /\ y[2] < 0)
                     THEN Fin(0)
                     ELSE OOR
      [] y[2] = 0 -> IF x[2] = 0 THEN NaN ELSE Inf(x[2])
      [] x[2] = 0 -> IF y[2] > 0 THEN Fin(0) ELSE OOR
      [] OTHER -> IF Abs(x[2]) % Abs(y[2]) = 0
                  THEN Clip(Sign(x[2]) * Sign(y[2]) * (Abs(x[2]) \div Abs(y[2])))
                  ELSE OOR

\* BinOp with the operands of the subtraction exchanged.
BinOpSwapped(o, x, y) ==
    CASE o = "add" -> FAdd(x, y)
      [] o = "sub" -> FSub(y, x)
      [] o = "mul" -> FMul(x, y)
      [] OTHER -> FDiv(x, y)

OpNames == {"add", "sub", "mul", "div"}

\* The closure each of Add, Subtract, Multiply and Divide passes to operate.
BinOp(o, x, y) ==
    CASE o = "add" -> FAdd(x, y)
      [] o = "sub" -> FSub(x, y)
      [] o = "mul" -> FMul(x, y)
      [] OTHER -> FDiv(x, y)

(***************************************************************************)
(* Counter: the struct {values map[string]float64; Base float64}.  values  *)
(* is a function whose domain is the set of keys held in the map.          *)
(***************************************************************************)
EmptyMap == [k \in {} |-> NaN]

MapPut(m, k, v) == [j \in (DOMAIN m) \cup {k} |-> IF j = k THEN v ELSE m[j]]

MapDelete(m, k) == [j \in (DOMAIN m) \ {k} |-> m[j]]

New(base) == [values |-> EmptyMap, Base |-> base]

Get(c, k) == IF k \in DOMAIN c.values THEN c.values[k] ELSE c.Base

\* Set: the delete in the branch is followed by the store in every case
\* (there is no return and no else).
Set(c, k, v) ==
    LET m == IF FEq(v, c.Base) THEN MapDelete(c.values, k) ELSE c.values
    IN  [c EXCEPT !.values = MapPut(m, k, v)]

Incr(c, k) == Set(c, k, FAdd(Get(c, k), Fin(1)))

\* KeysOf without the test that passes over default values.
KeysOfUnfiltered(c) == DOMAIN c.values

\* The keys Keys returns, as a set: the stored keys whose value is not Base.
KeysOf(c) == {k \in DOMAIN c.values : ~FEq(c.values[k], c.Base)}

\* The duplicate-free sequences over a set of keys: every order in which a
\* range over the map may produce them.
Orders(S) ==
    {s \in [1..Cardinality(S) -> S] : \A i, j \in DOMAIN s : s[i] = s[j] => i = j}

\* Keys: the slice returned, in any iteration order of the map.
Keys(c) == Orders(KeysOf(c))

Range(s) == {s[i] : i \in DOMAIN s}


(***************************************************************************)
(* mergeKeys and operate, as the calling goroutine sees them once the      *)
(* channel is drained: the keys in the order the goroutine sends them, and *)
(* the loop body applied to each.  The goroutine and the channel are       *)
(* modelled step by step further down (MergeSpec).                         *)
(***************************************************************************)
\* The keys mergeKeys sends: those of a in order, then those of b not seen.
MergeKeys(a, b) == a \o SelectSeq(b, LAMBDA k : k \notin Range(a))

RECURSIVE LoopPure(_, _, _, _, _)
\* operate, lines 87 to 89, for the received keys ks.
LoopPure(result, A, B, o, ks) ==
    IF ks = <<>> THEN result
    ELSE LoopPure(Set(result, Head(ks), BinOp(o, Get(A, Head(ks)), Get(B, Head(ks)))),
                  A, B, o, Tail(ks))

RECURSIVE LoopInPlace(_, _, _, _)
\* Counter.operate, lines 119 to 121, for the received keys ks.
LoopInPlace(A, B, o, ks) ==
    IF ks = <<>> THEN A
    ELSE LoopInPlace(Set(A, Head(ks), BinOp(o, Get(A, Head(ks)), Get(B, Head(ks)))),
                     B, o, Tail(ks))

\* Counter.operate, line 117: a.Base = op(a.Base, b.Base).
StoreBase(o, A, B) == [A EXCEPT !.Base = BinOp(o, A.Base, B.Base)]

\* The left operand as the key merge and the loop read it: Counter.operate
\* has stored the new base in it by then, operate leaves a untouched.
LeftOperand(kind, o, A, B) == IF kind = "inplace" THEN StoreBase(o, A, B) ELSE A

\* Every value the call computes is a float64 the model holds.
Representable(kind, o, A, B) ==
    /\ BinOp(o, A.Base, B.Base) # OOR
    /\ \A k \in KeysOf(LeftOperand(kind, o, A, B)) \cup KeysOf(B) :
          BinOp(o, Get(LeftOperand(kind, o, A, B), k), Get(B, k)) # OOR

(***************************************************************************)
(* Apply and ArgMax.  Apply stores op(nil, Base) in Base and then ranges   *)
(* over c.values itself, calling Set on the map it ranges over.  When Set  *)
(* removes the entry and stores it anew, the range may produce the new     *)
(* entry again or pass over it.                                            *)
(***************************************************************************)
\* op(key, v) for the functions callers pass and for the closure of ArgMax,
\* which returns val; isBase is key == nil.
\*   "incKeys": v for the base, v + 1 for an entry
\*   "dec":     v - 1
\*   "zero":    0
FnApply(f, isBase, v) ==
    CASE f = "incKeys" -> IF isBase THEN v ELSE FAdd(v, Fin(1))
      [] f = "dec" -> FSub(v, Fin(1))
      [] f = "zero" -> Fin(0)
      [] OTHER -> v

Count(seq, k) == Cardinality({i \in DOMAIN seq : seq[i] = k})

RECURSIVE MayProduce(_, _, _, _)
\* Whether the range of Apply over c.values can produce the keys seq in this
\* order: a key comes again only when the entry now stored under it was
\* created by the Set of its last iteration.
MayProduce(c, f, seq, done) ==
    \/ seq = <<>>
    \/ /\ Head(seq) \in done => FEq(c.values[Head(seq)], c.Base)
       /\ FnApply(f, FALSE, c.values[Head(seq)]) # OOR
       /\ MayProduce(Set(c, Head(seq), FnApply(f, FALSE, c.values[Head(seq)])),
                     f, Tail(seq), done \cup {Head(seq)})

\* The sequences of keys the range of Apply, line 149, may produce on c.
Productions(c, f) ==
    LET D == DOMAIN c.values
        n == Cardinality(D)
    IN  {seq \in UNION {[1..m -> D] : m \in n..(n * MaxVisits)} :
            /\ \A k \in D : Count(seq, k) \in 1..MaxVisits
            /\ MayProduce(c, f, seq, {})}

RECURSIVE ApplyLoop(_, _, _)
\* Apply, lines 149 to 151, for the keys seq the range produces.
ApplyLoop(c, f, seq) ==
    IF seq = <<>> THEN c
    ELSE ApplyLoop(Set(c, Head(seq), FnApply(f, FALSE, c.values[Head(seq)])),
                   f, Tail(seq))

\* Apply, line 147.
ApplyBase(c, f) == [c EXCEPT !.Base = FnApply(f, TRUE, c.Base)]

RECURSIVE Closure(_, _, _)
\* The closure of ArgMax, lines 180 to 187, called for each key of seq in
\* turn; st is <<maxKey, maxVal>>, maxKey being "nil" or "k", the address
\* of the loop variable k of Apply.
Closure(c, st, seq) ==
    IF seq = <<>> THEN st
    ELSE Closure(c,
                 IF FGt(c.values[Head(seq)], st[2]) \/ st[1] = "nil"
                 THEN <<"k", c.values[Head(seq)]>>
                 ELSE st,
                 Tail(seq))

\* ArgMax, lines 177 to 189, when the range of Apply produces seq.  The first
\* call of the closure, on the base, finds maxKey nil and stores key, which
\* is nil, and the base.  The return dereferences maxKey: nil, or the loop
\* variable k, which holds the key produced last.
ArgMax(c, seq) ==
    LET st == Closure(c, <<"nil", c.Base>>, seq)
    IN  IF st[1] = "nil"
        THEN [outcome |-> "nilDereference", key |-> "", val |-> st[2]]
        ELSE [outcome |-> "returned", key |-> seq[Len(seq)], val |-> st[2]]

\* The keys of seq in the order of their first production.
RECURSIVE FirstVisits(_, _)
FirstVisits(seq, acc) ==
    IF seq = <<>> THEN acc
    ELSE FirstVisits(Tail(seq),
                     IF Head(seq) \in Range(acc) THEN acc ELSE Append(acc, Head(seq)))

(***************************************************************************)
(* reduce and Sum.                                                         *)
(***************************************************************************)
RECURSIVE Fold(_, _, _)
\* reduce with op = +, lines 167 to 173, over the stored values in the order
\* ks of their keys.
Fold(c, val, ks) ==
    IF ks = <<>> THEN val
    ELSE Fold(c, FAdd(val, c.values[Head(ks)]), Tail(ks))

\* Sum, line 193, when the range over c.values takes the order ks.
Sum(c, ks) == Fold(c, c.Base, ks)

(***************************************************************************)
(* Callers.  Two counters a and b are built with New and Set; r holds the  *)
(* counter returned by the last pure operation.  The caller owns all       *)
(* three and makes one call at a time.                                     *)
(***************************************************************************)
\* The values callers pass to New and Set when building a and b.
BuildVals == {Fin(0), Fin(1)}

\* The values callers pass to Set afterwards.
SetVals == {Fin(0), Fin(1), NaN}

\* The functions callers pass to Apply.
ApplyFns == {"incKeys", "dec", "zero"}

\* The operands of the pure and of the in-place operations.
PurePairs == {<<"a", "b">>, <<"r", "b">>}

InPlacePairs == {<<"a", "b">>}

\* The counters New(base) followed by Set(k, v), v # base, on keys of K gives.
Built(K) ==
    {c \in {[values |-> m, Base |-> base] :
                base \in BuildVals, m \in UNION {[S -> BuildVals] : S \in SUBSET K}} :
        \A k \in DOMAIN c.values : c.values[k] # c.Base}

NoCall == [kind |-> "none"]

VARIABLES
    ctr,      \* the live counters: a function from "a", "b" (and "r") to Counter
    steps,    \* top-level calls made so far
    last,     \* history: the last call that returned
    prev,     \* history: the pure operation that returned just before last
    call,     \* the binary operation in progress (NoCall when there is none)
    res,      \* operate: the fresh counter `result` being filled
    ppc,      \* mergeKeys goroutine: "a", "markA", "b", "done" (or "off")
    pi,       \* mergeKeys goroutine: index into the slice being ranged over
    seen,     \* mergeKeys goroutine: the map seen, as the set of its keys
    closed,   \* channel out: close(out) has run
    cpc,      \* range loop of operate: "recv", "body" (or "off")
    ck,       \* range loop of operate: the key k received
    sent      \* history: the keys sent on out, in order

vars == <<ctr, steps, last, prev, call, res, ppc, pi, seen, closed, cpc, ck, sent>>

mergeVars == <<call, res, ppc, pi, seen, closed, cpc, ck, sent>>

Idle == call.kind = "none"

InitAt(n, K) ==
    /\ ctr \in {[c \in {"a", "b"} |-> IF c = "a" THEN A ELSE B] :
                    A \in Built(KeySet), B \in Built(K)}
    /\ steps = n
    /\ last = NoCall
    /\ prev = NoCall
    /\ call = NoCall
    /\ res = New(Fin(0))
    /\ ppc = "off" /\ pi = 0 /\ seen = {} /\ closed = FALSE
    /\ cpc = "off" /\ ck = "" /\ sent = <<>>

Init == InitAt(0, {"x"})

\* The history shift every return makes.
Return(rec) ==
    /\ last' = rec
    /\ prev' = IF last.kind = "pure" THEN last ELSE NoCall

Update(c, v) == [ctr EXCEPT ![c] = v]

\* The counters with r bound to the counter a pure operation returned.
Bind(v) == [c \in (DOMAIN ctr) \cup {"r"} |-> IF c = "r" THEN v ELSE ctr[c]]

CanCall == Idle /\ steps < MaxSteps

\* c.Set(k, v)
SetCall(c, k, v) ==
    /\ CanCall
    /\ ctr' = Update(c, Set(ctr[c], k, v))
    /\ steps' = steps + 1
    /\ Return([kind |-> "set", c |-> c, k |-> k, v |-> v, pre |-> ctr[c]])
    /\ UNCHANGED mergeVars

\* c.Incr(k)
IncrCall(c, k) ==
    /\ CanCall
    /\ FAdd(Get(ctr[c], k), Fin(1)) # OOR
    /\ ctr' = Update(c, Incr(ctr[c], k))
    /\ steps' = steps + 1
    /\ Return([kind |-> "incr", c |-> c, k |-> k, pre |-> ctr[c]])
    /\ UNCHANGED mergeVars

\* r = Add(x, y), Subtract(x, y), Multiply(x, y) or Divide(x, y), lines 84
\* to 92, with the channel drained.
PureCall(o, x, y) ==
    /\ CanCall
    /\ x \in DOMAIN ctr /\ y \in DOMAIN ctr
    /\ Representable("pure", o, ctr[x], ctr[y])
    /\ \E ka \in Keys(ctr[x]), kb \in Keys(ctr[y]) :
          LET result == LoopPure(New(BinOp(o, ctr[x].Base, ctr[y].Base)),
                                 ctr[x], ctr[y], o, MergeKeys(ka, kb))
          IN  /\ ctr' = Bind(result)
              /\ Return([kind |-> "pure", opn |-> o, a |-> ctr[x], b |-> ctr[y],
                         out |-> result])
    /\ steps' = steps + 1
    /\ UNCHANGED mergeVars

\* x.Add(y), x.Subtract(y), x.Multiply(y) or x.Divide(y), lines 116 to 122,
\* with the channel drained.
InPlaceCall(o, x, y) ==
    /\ CanCall
    /\ x \in DOMAIN ctr /\ y \in DOMAIN ctr
    /\ Representable("inplace", o, ctr[x], ctr[y])
    /\ \E ka \in Keys(StoreBase(o, ctr[x], ctr[y])), kb \in Keys(ctr[y]) :
          LET result == LoopInPlace(StoreBase(o, ctr[x], ctr[y]), ctr[y], o,
                                    MergeKeys(ka, kb))
          IN  /\ ctr' = Update(x, result)
              /\ Return([kind |-> "inplace", opn |-> o, a |-> ctr[x], b |-> ctr[y],
                         out |-> result])
    /\ steps' = steps + 1
    /\ UNCHANGED mergeVars

\* c.Apply(f), lines 146 to 152.
ApplyCall(c, f) ==
    /\ CanCall
    /\ FnApply(f, TRUE, ctr[c].Base) # OOR
    /\ \E seq \in Productions(ApplyBase(ctr[c], f), f) :
          /\ ctr' = Update(c, ApplyLoop(ApplyBase(ctr[c], f), f, seq))
          /\ Return([kind |-> "apply", c |-> c, f |-> f, pre |-> ctr[c],
                     count |-> [k \in DOMAIN ctr[c].values |-> Count(seq, k)]])
    /\ steps' = steps + 1
    /\ UNCHANGED mergeVars

\* c.ArgMax(), lines 176 to 190.
ArgMaxCall(c) ==
    /\ CanCall
    /\ \E seq \in Productions(ApplyBase(ctr[c], "argmax"), "argmax") :
          /\ ctr' = Update(c, ApplyLoop(ApplyBase(ctr[c], "argmax"), "argmax", seq))
          /\ Return([kind |-> "argmax", c |-> c, pre |-> ctr[c],
                     order |-> FirstVisits(seq, <<>>),
                     got |-> ArgMax(ApplyBase(ctr[c], "argmax"), seq)])
    /\ steps' = steps + 1
    /\ UNCHANGED mergeVars

Next ==
    \/ \E c \in {"a", "b"}, k \in KeySet, v \in SetVals : SetCall(c, k, v)
    \/ \E k \in KeySet : IncrCall("a", k)
    \/ \E o \in OpNames, p \in PurePairs : PureCall(o, p[1], p[2])
    \/ \E o \in OpNames, p \in InPlacePairs : InPlaceCall(o, p[1], p[2])
    \/ \E f \in ApplyFns : ApplyCall("a", f)
    \/ ArgMaxCall("a")

Spec == Init /\ [][Next]_vars

(***************************************************************************)
(* One binary operation step by step: the caller evaluates the base and    *)
(* both Keys() slices and starts the mergeKeys goroutine; the goroutine    *)
(* sends on the unbuffered channel out and closes it; the caller ranges    *)
(* over out.  A send and its receive are one step of both.                 *)
(***************************************************************************)
StartMerge ==
    /\ ppc' = "a" /\ pi' = 1 /\ seen' = {} /\ closed' = FALSE
    /\ cpc' = "recv" /\ ck' = "" /\ sent' = <<>>

\* operate, lines 85 and 87, up to the first receive.
StartPure(o, x, y) ==
    /\ CanCall
    /\ x \in DOMAIN ctr /\ y \in DOMAIN ctr
    /\ Representable("pure", o, ctr[x], ctr[y])
    /\ res' = New(BinOp(o, ctr[x].Base, ctr[y].Base))
    /\ \E ka \in Keys(ctr[x]), kb \in Keys(ctr[y]) :
          call' = [kind |-> "pure", opn |-> o, x |-> x, y |-> y,
                   a |-> ka, b |-> kb, preA |-> ctr[x], preB |-> ctr[y]]
    /\ StartMerge
    /\ steps' = steps + 1
    /\ UNCHANGED <<ctr, last, prev>>

\* Counter.operate, lines 117 and 119, up to the first receive.
StartInPlace(o, x, y) ==
    /\ CanCall
    /\ x \in DOMAIN ctr /\ y \in DOMAIN ctr
    /\ Representable("inplace", o, ctr[x], ctr[y])
    /\ ctr' = Update(x, StoreBase(o, ctr[x], ctr[y]))
    /\ \E ka \in Keys(StoreBase(o, ctr[x], ctr[y])), kb \in Keys(ctr[y]) :
          call' = [kind |-> "inplace", opn |-> o, x |-> x, y |-> y,
                   a |-> ka, b |-> kb, preA |-> ctr[x], preB |-> ctr[y]]
    /\ StartMerge
    /\ steps' = steps + 1
    /\ UNCHANGED <<res, last, prev>>

InBinOp == call.kind \in {"pure", "inplace"}

\* mergeKeys, line 68: out <- k for a key of a, received by the range loop.
SendA ==
    /\ InBinOp /\ ppc = "a" /\ pi <= Len(call.a) /\ cpc = "recv"
    /\ ck' = call.a[pi]
    /\ sent' = Append(sent, call.a[pi])
    /\ ppc' = "markA"
    /\ cpc' = "body"
    /\ UNCHANGED <<ctr, steps, last, prev, call, res, pi, seen, closed>>

\* mergeKeys, line 69: seen[k] = true.
MarkSeen ==
    /\ InBinOp /\ ppc = "markA"
    /\ seen' = seen \cup {call.a[pi]}
    /\ pi' = pi + 1
    /\ ppc' = "a"
    /\ UNCHANGED <<ctr, steps, last, prev, call, res, closed, cpc, ck, sent>>

\* mergeKeys, lines 67 and 72: the range over a is exhausted.
EndLoopA ==
    /\ InBinOp /\ ppc = "a" /\ pi > Len(call.a)
    /\ ppc' = "b"
    /\ pi' = 1
    /\ UNCHANGED <<ctr, steps, last, prev, call, res, seen, closed, cpc, ck, sent>>

\* mergeKeys, line 73: a key of b that was seen is passed over.
SkipSeen ==
    /\ InBinOp /\ ppc = "b" /\ pi <= Len(call.b)
    /\ call.b[pi] \in seen
    /\ pi' = pi + 1
    /\ UNCHANGED <<ctr, steps, last, prev, call, res, ppc, seen, closed, cpc, ck, sent>>

\* SendB without the test of seen.
SendBUnchecked ==
    /\ InBinOp /\ ppc = "b" /\ pi <= Len(call.b) /\ cpc = "recv"
    /\ ck' = call.b[pi]
    /\ sent' = Append(sent, call.b[pi])
    /\ pi' = pi + 1
    /\ cpc' = "body"
    /\ UNCHANGED <<ctr, steps, last, prev, call, res, ppc, seen, closed>>

\* mergeKeys, lines 73 and 74: out <- k for a key of b not seen.
SendB ==
    /\ InBinOp /\ ppc = "b" /\ pi <= Len(call.b) /\ cpc = "recv"
    /\ call.b[pi] \notin seen
    /\ ck' = call.b[pi]
    /\ sent' = Append(sent, call.b[pi])
    /\ pi' = pi + 1
    /\ cpc' = "body"
    /\ UNCHANGED <<ctr, steps, last, prev, call, res, ppc, seen, closed>>

\* Close without the close: the goroutine returns and leaves out open.
CloseSkipped ==
    /\ InBinOp /\ ppc = "b" /\ pi > Len(call.b)
    /\ ppc' = "done"
    /\ UNCHANGED <<ctr, steps, last, prev, call, res, pi, seen, closed, cpc, ck, sent>>

\* mergeKeys, line 63: the deferred close(out), run when the function returns.
Close ==
    /\ InBinOp /\ ppc = "b" /\ pi > Len(call.b)
    /\ closed' = TRUE
    /\ ppc' = "done"
    /\ UNCHANGED <<ctr, steps, last, prev, call, res, pi, seen, cpc, ck, sent>>

\* The value the loop body stores under the received key.
BodyValue == BinOp(call.opn, Get(ctr[call.x], ck), Get(ctr[call.y], ck))

\* operate, line 88: result.Set(k, op(a.Get(k), b.Get(k))).
BodyPure ==
    /\ call.kind = "pure" /\ cpc = "body"
    /\ res' = Set(res, ck, BodyValue)
    /\ cpc' = "recv"
    /\ UNCHANGED <<ctr, steps, last, prev, call, ppc, pi, seen, closed, ck, sent>>

\* Counter.operate, line 120: a.Set(k, op(a.Get(k), b.Get(k))).
BodyInPlace ==
    /\ call.kind = "inplace" /\ cpc = "body"
    /\ ctr' = Update(call.x, Set(ctr[call.x], ck, BodyValue))
    /\ cpc' = "recv"
    /\ UNCHANGED <<res, steps, last, prev, call, ppc, pi, seen, closed, ck, sent>>

StopMerge ==
    /\ call' = NoCall
    /\ ppc' = "off" /\ pi' = 0 /\ seen' = {} /\ closed' = FALSE
    /\ cpc' = "off" /\ ck' = "" /\ sent' = <<>>

\* The range loop finds out closed and drained.
RangeEnds == InBinOp /\ cpc = "recv" /\ closed

\* operate, line 91: the range ends on the closed channel, result is returned.
ReturnPure ==
    /\ call.kind = "pure" /\ RangeEnds
    /\ ctr' = Bind(res)
    /\ Return([kind |-> "pure", opn |-> call.opn, a |-> call.preA,
               b |-> call.preB, out |-> res])
    /\ res' = New(Fin(0))
    /\ StopMerge
    /\ UNCHANGED steps

\* Counter.operate, line 122: the range ends on the closed channel.
ReturnInPlace ==
    /\ call.kind = "inplace" /\ RangeEnds
    /\ Return([kind |-> "inplace", opn |-> call.opn, a |-> call.preA,
               b |-> call.preB, out |-> ctr[call.x]])
    /\ StopMerge
    /\ UNCHANGED <<ctr, res, steps>>

\* The steps of the mergeKeys goroutine and those of the caller's loop.
Producer == SendA \/ MarkSeen \/ EndLoopA \/ SkipSeen \/ SendB \/ Close

Consumer == SendA \/ SendB \/ BodyPure \/ BodyInPlace \/ ReturnPure \/ ReturnInPlace

MergeInit == InitAt(MaxSteps - 1, KeySet)

MergeNext ==
    \/ \E o \in OpNames, p \in PurePairs : StartPure(o, p[1], p[2])
    \/ \E o \in OpNames, p \in InPlacePairs : StartInPlace(o, p[1], p[2])
    \/ SendA
    \/ MarkSeen
    \/ EndLoopA
    \/ SkipSeen
    \/ SendB
    \/ Close
    \/ BodyPure
    \/ BodyInPlace
    \/ ReturnPure
    \/ ReturnInPlace

\* One binary operation on built counters; the Go scheduler runs every
\* goroutine that can take a step.
MergeSpec ==
    MergeInit /\ [][MergeNext]_vars /\ WF_vars(Producer) /\ WF_vars(Consumer)

\* The step-by-step operation returns what PureCall and InPlaceCall compute.
DrainedAgrees ==
    RangeEnds =>
        /\ sent = MergeKeys(call.a, call.b)
        /\ call.kind = "pure" =>
              res = LoopPure(New(BinOp(call.opn, call.preA.Base, call.preB.Base)),
                             call.preA, call.preB, call.opn, sent)
        /\ call.kind = "inplace" =>
              ctr[call.x] = LoopInPlace(StoreBase(call.opn, call.preA, call.preB),
                                        call.preB, call.opn, sent)

(***************************************************************************)
(* Properties.                                                             *)
(***************************************************************************)
\* Two counters a caller cannot tell apart: same base, same Get on every key.
SameCounter(c, d) == c.Base = d.Base /\ \A k \in KeySet : Get(c, k) = Get(d, k)

IntValued(c) == IsFin(c.Base) /\ \A k \in DOMAIN c.values : IsFin(c.values[k])

\* C1: the in-place form of an operator leaves its receiver in the state of
\* the counter the pure form returns on the same starting operands: same
\* base, same Get(k) for every key k.
InPlaceMatchesPure ==
    (/\ last.kind = "inplace" /\ prev.kind = "pure"
     /\ prev.opn = last.opn /\ prev.a = last.a /\ prev.b = last.b)
        => SameCounter(last.out, prev.out)

\* C2: no entry held in a counter's storage has a value equal to the
\* counter's base.
NoStoredDefault ==
    \A c \in DOMAIN ctr : \A k \in DOMAIN ctr[c].values :
        ~FEq(ctr[c].values[k], ctr[c].Base)

\* What C3 says of the counter post left by pre.Set(k, v).
SetPost(pre, post, k, v) ==
    /\ IF FEq(v, pre.Base)
       THEN k \notin KeysOf(post)
       ELSE k \in KeysOf(post) /\ FEq(Get(post, k), v)
    /\ \A j \in KeySet \ {k} :
          /\ Get(post, j) = Get(pre, j)
          /\ j \in KeysOf(post) <=> j \in KeysOf(pre)

\* C3 as claimed: right after c.Set(k, v), k is not in c.Keys() if v == base,
\* else k is in c.Keys() and c.Get(k) == v; Get and Keys membership of every
\* other key are unchanged.  For every v.
SetThenGetAnyValue ==
    last.kind = "set" => SetPost(last.pre, ctr[last.c], last.k, last.v)

\* C3, amended: the same for every v that is not a NaN.
SetThenGet ==
    (last.kind = "set" /\ ~IsNaN(last.v))
        => SetPost(last.pre, ctr[last.c], last.k, last.v)

\* C3's case: a key Keys() held is set to the base.
SetToBaseSeen ==
    /\ last.kind = "set"
    /\ FEq(last.v, last.pre.Base)
    /\ last.k \in KeysOf(last.pre)

\* C4: for the duplicate-free slices a and b of Keys(), the keys sent on the
\* channel are duplicate-free, follow a key for key while a lasts, come from
\* b alone after that, and are all the keys of a and b once the channel is
\* closed.
MergeSendsUnionOnce ==
    InBinOp =>
        /\ \A i, j \in DOMAIN sent : sent[i] = sent[j] => i = j
        /\ \A i \in DOMAIN sent :
              IF i <= Len(call.a)
              THEN sent[i] = call.a[i]
              ELSE sent[i] \in Range(call.b) \ Range(call.a)
        /\ closed => Range(sent) = Range(call.a) \cup Range(call.b)

\* C4's case: the channel is closed after a merge of slices that share a key
\* and in which b has a key of its own.
MergeOverlapSeen ==
    /\ InBinOp /\ closed
    /\ Range(call.a) \cap Range(call.b) # {}
    /\ Range(call.b) \ Range(call.a) # {}

\* C5: in a binary operation the goroutine eventually closes the channel,
\* having sent every key; the range loop eventually ends; and the loop never
\* finds the channel closed before it has received and handled every key.
MergeTerminates ==
    /\ InBinOp ~> (closed /\ sent = MergeKeys(call.a, call.b))
    /\ InBinOp ~> Idle
    /\ [](RangeEnds =>
            /\ Range(sent) = Range(call.a) \cup Range(call.b)
            /\ \A k \in Range(sent) :
                  k \in DOMAIN (IF call.kind = "pure" THEN res ELSE ctr[call.x]).values)

\* C5's case: the range loop ends after two keys came through the channel.
RangeEndsSeen == RangeEnds /\ Len(sent) = 2

\* C6: Sum() is the base, once, plus Get(k) over the keys of Keys().
SumIsBasePlusKeys ==
    \A c \in DOMAIN ctr :
        \A ks \in Orders(DOMAIN ctr[c].values), js \in Keys(ctr[c]) :
            (Sum(ctr[c], ks) # OOR /\ Fold(ctr[c], ctr[c].Base, js) # OOR)
                => Sum(ctr[c], ks) = Fold(ctr[c], ctr[c].Base, js)

\* C7: on a counter with a stored entry ArgMax returns (k, v), v the maximum
\* of the stored values and k a stored key whose value is v, the first one
\* visited among the keys that hold v.
ArgMaxReturnsMaximum ==
    (last.kind = "argmax" /\ DOMAIN last.pre.values # {}) =>
        /\ last.got.outcome = "returned"
        /\ last.got.key \in DOMAIN last.pre.values
        /\ last.pre.values[last.got.key] = last.got.val
        /\ \A j \in DOMAIN last.pre.values : ~FGt(last.pre.values[j], last.got.val)
        /\ \A i \in DOMAIN last.order :
              last.pre.values[last.order[i]] = last.got.val
                  => \E j \in 1..i : last.order[j] = last.got.key

\* C8: ArgMax on a counter with empty storage ends in the empty-counter
\* error, without dereferencing an absent key, and leaves the counter as it
\* was.
ArgMaxOnEmptyIsAnError ==
    (last.kind = "argmax" /\ DOMAIN last.pre.values = {}) =>
        /\ last.got.outcome = "emptyCounterError"
        /\ ctr[last.c] = last.pre

\* C9: for integer-valued a and b, Subtract(Add(a, b), b) has a's base and
\* a's Get(k) for every key k.
SubtractUndoesAdd ==
    (/\ last.kind = "pure" /\ last.opn = "sub"
     /\ prev.kind = "pure" /\ prev.opn = "add"
     /\ last.a = prev.out /\ last.b = prev.b
     /\ IntValued(prev.a) /\ IntValued(prev.b))
        => SameCounter(last.out, prev.a)

\* C9's case: Subtract(Add(a, b), b) returned, and Add(a, b) stored under
\* some key a sum equal to its base.
SubtractAfterAddSeen ==
    /\ last.kind = "pure" /\ last.opn = "sub"
    /\ prev.kind = "pure" /\ prev.opn = "add"
    /\ last.a = prev.out /\ last.b = prev.b
    /\ IntValued(prev.a) /\ IntValued(prev.b)
    /\ \E k \in DOMAIN prev.out.values : FEq(prev.out.values[k], prev.out.Base)
    /\ DOMAIN prev.a.values # DOMAIN prev.b.values

\* C10: Apply(f) stores f(nil, old base) in the base and applies f exactly
\* once to each entry that Keys() held when the call began, and to no other:
\* Get(k) is then f(k, old Get(k)), and the key is out of Keys() when that
\* equals the new base.
ApplyOncePerKey ==
    last.kind = "apply" =>
        /\ ctr[last.c].Base = FnApply(last.f, TRUE, last.pre.Base)
        /\ \A k \in DOMAIN last.pre.values :
              last.count[k] = IF k \in KeysOf(last.pre) THEN 1 ELSE 0
        /\ \A k \in KeysOf(last.pre) :
              /\ Get(ctr[last.c], k) = FnApply(last.f, FALSE, Get(last.pre, k))
              /\ FEq(Get(ctr[last.c], k), ctr[last.c].Base)
                    => k \notin KeysOf(ctr[last.c])

=============================================================================
